---- MODULE Spec2Model ----
(***************************************************************************)
(* fusionclaw: the context fuser (fusionclaw/fuser.py).                    *)
(*                                                                         *)
(* A text is modelled as the sequence of its tokens, so count_tokens is    *)
(* the length of the sequence and string concatenation is \o.  The empty   *)
(* string is the empty sequence.  An Optional argument is <<>> (None) or   *)
(* <<v>>.  A Fact's confidence is kept in percent (100 is 1.0).            *)
(***************************************************************************)
EXTENDS Integers, Sequences, FiniteSets, TLC

\* ---------------------------------------------------------------- bounds
MaxStates == 3
MaxBudget == 20

\* ------------------------------------------------------------- constants
DefaultTokenBudget == 120000

None == <<>>
Some(v) == <<v>>

\* ------------------------------------------------------------ data model
Fact(k, v, c) == [key |-> k, value |-> v, confidence |-> c]

StateObject(id, s, facts, raw, tc) ==
    [claw_id |-> id, summary |-> s, key_facts |-> facts,
     raw_context |-> raw, token_count |-> tc]

ContextBlock(id, c, comp, orig, fin) ==
    [source_claw_id |-> id, content |-> c, is_compressed |-> comp,
     original_tokens |-> orig, final_tokens |-> fin]

FusedContext(b, t, c) ==
    [blocks |-> b, total_tokens |-> t, compression_applied |-> c]

\* ---------------------------------------------------------------- inputs
\* The StateObjects a call may receive: with and without facts, with an
\* empty summary, with an empty raw_context, with a confidence below 1.0,
\* with a token_count that is not the size of raw_context, two of them from
\* the same claw.
StateObjects ==
    { StateObject("a", <<"alpha">>, <<Fact("k1", "v1", 50)>>,
                  <<"w", "w", "w">>, 3),
      StateObject("b", <<"beta", "beta", "beta">>, <<>>, <<"w", "w">>, 0),
      StateObject("c", <<"gamma">>,
                  <<Fact("k2", "v2", 100), Fact("k3", "v3", 50)>>, <<>>, 9),
      StateObject("a", <<>>, <<>>, <<"w">>, 0) }

RECURSIVE SeqsUpTo(_, _)
SeqsUpTo(S, n) ==
    IF n = 0 THEN {<<>>}
    ELSE LET shorter == SeqsUpTo(S, n - 1)
         IN  shorter \cup { Append(q, x) : q \in shorter, x \in S }

StateLists == SeqsUpTo(StateObjects, MaxStates)

TokenBudgets == {None} \cup { Some(n) : n \in -1..MaxBudget }

InstanceBudgets == {-1, 5, DefaultTokenBudget}

PriorityKeys == {"a", "b", "zz"}
PriorityValues == {-1, 1}
PriorityDicts ==
    UNION { [K -> PriorityValues] : K \in SUBSET PriorityKeys }
PriorityArgs == {None} \cup { Some(d) : d \in PriorityDicts }

\* ------------------------------------------------------------- tokenizer
count_tokens(text) == Len(text)

\* "\n".join(lines)
RECURSIVE Join(_)
Join(lines) ==
    IF lines = <<>> THEN <<>>
    ELSE IF Len(lines) = 1 THEN lines[1]
    ELSE lines[1] \o <<"\n">> \o Join(Tail(lines))

\* ------------------------------------------------------------ renderings
ConfidenceSuffix(f) ==
    IF f.confidence < 100
    THEN <<" (confidence: ", ToString(f.confidence), ")">>
    ELSE <<>>

FactLine(f) == <<"  - ", f.key, ": ", f.value>>

FactLines(state, withConf) ==
    [ i \in 1..Len(state.key_facts) |->
        FactLine(state.key_facts[i])
          \o (IF withConf THEN ConfidenceSuffix(state.key_facts[i]) ELSE <<>>) ]

_format_compressed_block(state) ==
    Join( << <<"Summary: ">> \o state.summary >>
          \o (IF state.key_facts # <<>>
              THEN << <<"Key Facts:">> >> \o FactLines(state, TRUE)
              ELSE <<>>) )

_format_full_block(state) ==
    Join( << <<"Summary: ">> \o state.summary >>
          \o (IF state.key_facts # <<>>
              THEN << <<"Key Facts:">> >> \o FactLines(state, TRUE)
              ELSE <<>>)
          \o (IF state.raw_context # <<>>
              THEN << <<"Full Context:", "\n">> \o state.raw_context >>
              ELSE <<>>) )

_format_facts_only(state) ==
    IF state.key_facts = <<>>
    THEN <<"[", state.claw_id, ": no facts available]">>
    ELSE Join( << <<"Key Facts:">> >> \o FactLines(state, FALSE) )

\* ------------------------------------------------------------------ fuse
VARIABLES
    self_token_budget,  \* ContextFuser.token_budget, set by __init__
    states,             \* argument of fuse
    token_budget,       \* argument of fuse: None or Some(n)
    priorities,         \* argument of fuse: None or Some(dict)
    pc,                 \* "call", "walk" (the loop of the over-budget path), "done"
    paired,             \* the (state, full_block) pairs, sorted
    idx,                \* position of the loop in paired
    final_blocks,
    remaining_budget,
    result              \* None until fuse returns, then Some(FusedContext)

vars == <<self_token_budget, states, token_budget, priorities, pc, paired,
          idx, final_blocks, remaining_budget, result>>

\* ----------------------------------------------------------- orchestrator
\* A query is named by its user_input.  Each query on the Orchestrator has
\* its own frame: the fields below are functions of the query.
VARIABLES
    claws,         \* Orchestrator.claws: the claw ids, in the caller's order
    q_pc,          \* "idle", "gather", "fusing" (inside fuse, when its steps
                   \* are followed), "fused", "synth", "returned", "failed"
    q_priorities,  \* argument of query: None or Some(dict)
    run_log,       \* the calls claw.run(input) made, in order: <<position, input>>
    task,          \* per claw position: "pending", "done", "failed"
    results,       \* the result slots of gather: None or Some(StateObject)
    completion,    \* the positions of the claws in the order they finished
    q_states,      \* None, or Some(the list passed to fuse)
    q_fused,       \* None, or Some(the FusedContext fuse returned)
    q_prompt,      \* None, or Some(the prompt built)
    synth_calls,   \* number of chat.completions.create calls issued
    q_result,      \* None, or Some(SynthesisResult)
    q_response,    \* None, or Some(what the completion call returned)
    q_error        \* None, or Some("producer"), Some("synthesis")

qvars == <<claws, q_pc, q_priorities, run_log, task, results, completion,
           q_states, q_fused, q_prompt, synth_calls, q_result, q_response,
           q_error>>

fvars == <<states, token_budget, priorities, pc, paired, idx, final_blocks,
           remaining_budget, result>>

Queries == {"q1", "q2"}

\* -------------------------------------------------------------- registry
VARIABLES
    self_claws,  \* InternalRegistry._claws: a dict, kept as the sequence of
                 \* its <<claw_id, claw>> items in insertion order
    reg_log,     \* the add and remove calls made so far, in order
    reg_ret      \* the outcome of the last call

rvars == <<self_claws, reg_log, reg_ret>>

\* No InternalRegistry is in use.
NoRegistry ==
    /\ self_claws = <<>>
    /\ reg_log = <<>>
    /\ reg_ret = [op |-> "init", ids |-> <<>>, raised |-> None, value |-> None]

\* The Orchestrator with no query started.
NoQuery ==
    /\ q_pc = [q \in Queries |-> "idle"]
    /\ q_priorities = [q \in Queries |-> None]
    /\ run_log = [q \in Queries |-> <<>>]
    /\ task = [q \in Queries |-> <<>>]
    /\ results = [q \in Queries |-> <<>>]
    /\ completion = [q \in Queries |-> <<>>]
    /\ q_states = [q \in Queries |-> None]
    /\ q_fused = [q \in Queries |-> None]
    /\ q_prompt = [q \in Queries |-> None]
    /\ synth_calls = [q \in Queries |-> 0]
    /\ q_result = [q \in Queries |-> None]
    /\ q_response = [q \in Queries |-> None]
    /\ q_error = [q \in Queries |-> None]

\* token_budget or self.token_budget
budget_of(tb, dflt) == IF tb # None /\ tb[1] # 0 THEN tb[1] ELSE dflt

\* priorities or {}
priorities_of(p) == IF p # None THEN p[1] ELSE <<>>

\* Faulty variant: a claw without an entry gets the lowest priority of the dict.
priority_get_lowest(d, claw_id) ==
    IF claw_id \in DOMAIN d THEN d[claw_id]
    ELSE IF DOMAIN d = {} THEN 0
    ELSE CHOOSE m \in { d[k] : k \in DOMAIN d } :
             \A k \in DOMAIN d : m <= d[k]

\* priorities.get(claw_id, 0)
priority_get(d, claw_id) == IF claw_id \in DOMAIN d THEN d[claw_id] ELSE 0

\* Faulty variant: the size of the full block is the advisory token_count.
full_block_of_advisory(state) ==
    ContextBlock(state.claw_id, _format_full_block(state), FALSE,
                 state.token_count, state.token_count)

\* The full block of a state: its tokens are counted from the rendering.
full_block_of(state) ==
    LET content == _format_full_block(state)
        tokens == count_tokens(content)
    IN  ContextBlock(state.claw_id, content, FALSE, tokens, tokens)

full_blocks_of(sts) == [ i \in 1..Len(sts) |-> full_block_of(sts[i]) ]

\* Faulty variant: the total is taken over original_tokens.
RECURSIVE sum_original_tokens(_)
sum_original_tokens(blocks) ==
    IF blocks = <<>> THEN 0
    ELSE Head(blocks).original_tokens + sum_original_tokens(Tail(blocks))

\* sum(b.final_tokens for b in blocks)
RECURSIVE sum_final_tokens(_)
sum_final_tokens(blocks) ==
    IF blocks = <<>> THEN 0
    ELSE Head(blocks).final_tokens + sum_final_tokens(Tail(blocks))

\* Faulty variant: reverse=True is missing, the sort is ascending.
sort_insert_ascending(sorted, p, d) ==
    LET k == Cardinality({ j \in 1..Len(sorted) :
                 priority_get(d, sorted[j][1].claw_id)
                     <= priority_get(d, p[1].claw_id) })
    IN  SubSeq(sorted, 1, k) \o <<p>> \o SubSeq(sorted, k + 1, Len(sorted))

\* Faulty variant: the sort is not stable, equal keys come out in reverse order.
sort_insert_unstable(sorted, p, d) ==
    LET k == Cardinality({ j \in 1..Len(sorted) :
                 priority_get(d, sorted[j][1].claw_id)
                     > priority_get(d, p[1].claw_id) })
    IN  SubSeq(sorted, 1, k) \o <<p>> \o SubSeq(sorted, k + 1, Len(sorted))

\* list.sort(key=..., reverse=True): descending by key, equal keys keep
\* their order.  An element goes behind every element whose key is >= its own.
sort_insert(sorted, p, d) ==
    LET k == Cardinality({ j \in 1..Len(sorted) :
                 priority_get(d, sorted[j][1].claw_id)
                     >= priority_get(d, p[1].claw_id) })
    IN  SubSeq(sorted, 1, k) \o <<p>> \o SubSeq(sorted, k + 1, Len(sorted))

RECURSIVE sort_pairs(_, _)
sort_pairs(ps, d) ==
    IF ps = <<>> THEN <<>>
    ELSE sort_insert(sort_pairs(SubSeq(ps, 1, Len(ps) - 1), d), ps[Len(ps)], d)

\* list(zip(states, full_blocks)), sorted
paired_of(sts, d) ==
    sort_pairs([ i \in 1..Len(sts) |-> <<sts[i], full_block_of(sts[i])>> ], d)

\* Faulty variant: the compressed block is appended without comparing it with the
\* remaining budget.
ladder_unguarded_compressed(state, full_block, remaining) ==
    IF remaining >= full_block.final_tokens
    THEN <<full_block>>
    ELSE LET compressed_content == _format_compressed_block(state)
             compressed_tokens == count_tokens(compressed_content)
         IN  <<ContextBlock(state.claw_id, compressed_content, TRUE,
                            full_block.original_tokens, compressed_tokens)>>

\* Faulty variant: the facts-only block is appended without comparing it with the
\* remaining budget.
ladder_unguarded_facts(state, full_block, remaining) ==
    IF remaining >= full_block.final_tokens
    THEN <<full_block>>
    ELSE LET compressed_content == _format_compressed_block(state)
             compressed_tokens == count_tokens(compressed_content)
         IN  IF remaining >= compressed_tokens
             THEN <<ContextBlock(state.claw_id, compressed_content, TRUE,
                                 full_block.original_tokens, compressed_tokens)>>
             ELSE LET facts_only == _format_facts_only(state)
                      facts_tokens == count_tokens(facts_only)
                  IN  <<ContextBlock(state.claw_id, facts_only, TRUE,
                                     full_block.original_tokens, facts_tokens)>>

\* Faulty variant: original_tokens of a degraded block is taken from the advisory
\* token_count of the StateObject.
ladder_advisory_original(state, full_block, remaining) ==
    IF remaining >= full_block.final_tokens
    THEN <<full_block>>
    ELSE LET compressed_content == _format_compressed_block(state)
             compressed_tokens == count_tokens(compressed_content)
         IN  IF remaining >= compressed_tokens
             THEN <<ContextBlock(state.claw_id, compressed_content, TRUE,
                                 state.token_count, compressed_tokens)>>
             ELSE LET facts_only == _format_facts_only(state)
                      facts_tokens == count_tokens(facts_only)
                  IN  IF remaining >= facts_tokens
                      THEN <<ContextBlock(state.claw_id, facts_only, TRUE,
                                          state.token_count, facts_tokens)>>
                      ELSE <<>>

\* Faulty variant: the compressed rendering is not tried, a state that does
\* not fit in full goes to facts-only.
ladder_no_compressed(state, full_block, remaining) ==
    IF remaining >= full_block.final_tokens
    THEN <<full_block>>
    ELSE LET facts_only == _format_facts_only(state)
             facts_tokens == count_tokens(facts_only)
         IN  IF remaining >= facts_tokens
             THEN <<ContextBlock(state.claw_id, facts_only, TRUE,
                                 full_block.original_tokens, facts_tokens)>>
             ELSE <<>>

\* One iteration of the loop over paired: the blocks to append (none or
\* one) for this state under the remaining budget.
ladder(state, full_block, remaining) ==
    IF remaining >= full_block.final_tokens
    THEN <<full_block>>
    ELSE LET compressed_content == _format_compressed_block(state)
             compressed_tokens == count_tokens(compressed_content)
         IN  IF remaining >= compressed_tokens
             THEN <<ContextBlock(state.claw_id, compressed_content, TRUE,
                                 full_block.original_tokens, compressed_tokens)>>
             ELSE LET facts_only == _format_facts_only(state)
                      facts_tokens == count_tokens(facts_only)
                  IN  IF remaining >= facts_tokens
                      THEN <<ContextBlock(state.claw_id, facts_only, TRUE,
                                          full_block.original_tokens, facts_tokens)>>
                      ELSE <<>>

\* remaining_budget -= <the final_tokens of the block appended>
spent(added) == IF added = <<>> THEN 0 ELSE added[1].final_tokens

\* Faulty variant: the boundary of the full merge is <.
under_budget_strict(total, b) == total < b

\* if total <= budget
under_budget(total, b) == total <= b

\* The loop over paired from position i on, as a function of its inputs.
RECURSIVE walk(_, _, _, _)
walk(ps, i, blocks, remaining) ==
    IF i > Len(ps) THEN blocks
    ELSE LET added == ladder(ps[i][1], ps[i][2], remaining)
         IN  walk(ps, i + 1, blocks \o added, remaining - spent(added))

\* fuse as a function of its arguments and of self.token_budget
fuse(sts, tb, p, dflt) ==
    LET b == budget_of(tb, dflt)
        full_blocks == full_blocks_of(sts)
        total == sum_final_tokens(full_blocks)
    IN  IF under_budget(total, b)
        THEN FusedContext(full_blocks, total, FALSE)
        ELSE LET blocks == walk(paired_of(sts, priorities_of(p)), 1, <<>>, b)
             IN  FusedContext(blocks, sum_final_tokens(blocks), TRUE)

budget == budget_of(token_budget, self_token_budget)

\* A ContextFuser after __init__, at a call of fuse.  self.token_budget is
\* read only when token_budget is None or 0, so it is varied only then.
Init ==
    /\ self_token_budget \in InstanceBudgets
    /\ states \in StateLists
    /\ token_budget \in TokenBudgets
    /\ token_budget \in {None, Some(0)} \/ self_token_budget = DefaultTokenBudget
    /\ priorities \in PriorityArgs
    /\ pc = "call"
    /\ paired = <<>>
    /\ idx = 0
    /\ final_blocks = <<>>
    /\ remaining_budget = 0
    /\ result = None
    /\ claws = <<>>
    /\ NoQuery
    /\ NoRegistry

\* fuse, up to the return of the full merge
FuseFullMerge ==
    /\ pc = "call"
    /\ LET full_blocks == full_blocks_of(states)
           total == sum_final_tokens(full_blocks)
       IN  /\ under_budget(total, budget)
           /\ result' = Some(FusedContext(full_blocks, total, FALSE))
    /\ pc' = "done"
    /\ UNCHANGED <<self_token_budget, states, token_budget, priorities,
                   paired, idx, final_blocks, remaining_budget>>
    /\ UNCHANGED qvars
    /\ UNCHANGED rvars

\* fuse, over budget: up to the start of the loop
FuseOverBudget ==
    /\ pc = "call"
    /\ ~under_budget(sum_final_tokens(full_blocks_of(states)), budget)
    /\ paired' = paired_of(states, priorities_of(priorities))
    /\ final_blocks' = <<>>
    /\ remaining_budget' = budget
    /\ idx' = 1
    /\ pc' = "walk"
    /\ UNCHANGED <<self_token_budget, states, token_budget, priorities, result>>
    /\ UNCHANGED qvars
    /\ UNCHANGED rvars

\* one iteration of the loop
FuseStep ==
    /\ pc = "walk"
    /\ idx <= Len(paired)
    /\ LET added == ladder(paired[idx][1], paired[idx][2], remaining_budget)
       IN  /\ final_blocks' = final_blocks \o added
           /\ remaining_budget' = remaining_budget - spent(added)
    /\ idx' = idx + 1
    /\ UNCHANGED <<self_token_budget, states, token_budget, priorities, pc,
                   paired, result>>
    /\ UNCHANGED qvars
    /\ UNCHANGED rvars

\* the return of the over-budget path
FuseReturn ==
    /\ pc = "walk"
    /\ idx > Len(paired)
    /\ result' = Some(FusedContext(final_blocks, sum_final_tokens(final_blocks), TRUE))
    /\ pc' = "done"
    /\ UNCHANGED <<self_token_budget, states, token_budget, priorities,
                   paired, idx, final_blocks, remaining_budget>>
    /\ UNCHANGED qvars
    /\ UNCHANGED rvars

Next == FuseFullMerge \/ FuseOverBudget \/ FuseStep \/ FuseReturn

Spec == Init /\ [][Next]_vars

\* ---------------------------------------------------------------- claims
\* The returned FusedContext, once fuse has returned.
fused == result[1]

Returned == pc = "done"

\* The sum of the full-fidelity token counts of the Findings passed.
FullTokens(state) == count_tokens(_format_full_block(state))

RECURSIVE FullSum(_)
FullSum(sts) ==
    IF sts = <<>> THEN 0
    ELSE FullTokens(Head(sts)) + FullSum(Tail(sts))

RECURSIVE SumOver(_, _)
SumOver(f, S) ==
    IF S = {} THEN 0
    ELSE LET x == CHOOSE y \in S : TRUE
         IN  f[x] + SumOver(f, S \ {x})

\* C1: for every list of Findings and every budget > 0, the tokens of the
\* returned FusedContext do not exceed the budget, and on the over-budget
\* path the remaining budget is never negative after a Finding is processed.
C1_WithinBudget ==
    budget > 0 =>
        /\ pc \in {"walk", "done"} => remaining_budget >= 0
        /\ Returned => fused.total_tokens <= budget

C1_Witness ==
    /\ Returned
    /\ budget > 0
    /\ fused.compression_applied
    /\ Len(fused.blocks) >= 2
    /\ fused.total_tokens = budget

\* C2: when the full-fidelity token counts sum to at most the budget (the
\* sum equal to the budget included), fuse returns one FULL block per
\* Finding in the input order, the total is that sum and no compression is
\* reported.
C2_LosslessPath ==
    (Returned /\ FullSum(states) <= budget) =>
        /\ Len(fused.blocks) = Len(states)
        /\ \A i \in 1..Len(states) :
              /\ fused.blocks[i].source_claw_id = states[i].claw_id
              /\ fused.blocks[i].content = _format_full_block(states[i])
              /\ ~fused.blocks[i].is_compressed
              /\ fused.blocks[i].final_tokens = FullTokens(states[i])
        /\ fused.total_tokens = FullSum(states)
        /\ ~fused.compression_applied

C2_Witness ==
    /\ Returned
    /\ Len(states) >= 2
    /\ FullSum(states) = budget
    /\ Len(fused.blocks) = Len(states)

\* C3: the total of every returned FusedContext is the exact sum of the
\* final token counts of its blocks, on both paths.
C3_TokenAccounting ==
    Returned =>
        fused.total_tokens =
            SumOver([ i \in DOMAIN fused.blocks |-> fused.blocks[i].final_tokens ],
                    DOMAIN fused.blocks)

C3_Witness ==
    /\ Returned
    /\ fused.compression_applied
    /\ \E i, j \in DOMAIN fused.blocks :
          fused.blocks[i].is_compressed /\ ~fused.blocks[j].is_compressed

\* C4: every block of every returned FusedContext has final tokens at most
\* its original tokens, the facts-only blocks and the blocks holding the
\* "no facts available" placeholder included.
C4_FinalAtMostOriginal ==
    Returned =>
        \A i \in DOMAIN fused.blocks :
            fused.blocks[i].final_tokens <= fused.blocks[i].original_tokens

C4_Witness ==
    /\ Returned
    /\ \E i, j \in DOMAIN fused.blocks :
          /\ fused.blocks[i].content = <<"[", "b", ": no facts available]">>
          /\ fused.blocks[j].content # <<"[", "b", ": no facts available]">>
          /\ fused.blocks[j].is_compressed
          /\ \E s \in StateObjects :
                /\ s.key_facts # <<>>
                /\ fused.blocks[j].content = _format_facts_only(s)

\* The stepwise run of fuse and the function fuse agree.
StepwiseIsFuse ==
    Returned => fused = fuse(states, token_budget, priorities, self_token_budget)

\* The priority of the Finding passed at position i: its entry in the
\* priority map, 0 without one.
PriorityOf(i) ==
    IF priorities # None /\ states[i].claw_id \in DOMAIN priorities[1]
    THEN priorities[1][states[i].claw_id]
    ELSE 0

CompressedTokens(state) == count_tokens(_format_compressed_block(state))

FactsTokens(state) == count_tokens(_format_facts_only(state))

OverBudgetPath == FullSum(states) > budget

\* C5: compression_applied is true exactly when some included block is not
\* FULL or some Finding has no block.
C5_CompressionFlag ==
    Returned =>
        (fused.compression_applied <=>
            \/ \E i \in DOMAIN fused.blocks : fused.blocks[i].is_compressed
            \/ Len(fused.blocks) < Len(states))

\* C5, C8: the flag is wrong only for an empty list under a negative budget.
CompressionFlagUnlessEmptyNegative ==
    (Returned /\ ~(states = <<>> /\ budget < 0)) =>
        (fused.compression_applied <=>
            \/ \E i \in DOMAIN fused.blocks : fused.blocks[i].is_compressed
            \/ Len(fused.blocks) < Len(states))

\* C6: of two Findings A and B with priority(A) > priority(B), under a
\* budget of at least full(A) + compressed(B) and less than full(A) +
\* full(B), A is returned FULL and B compressed, in whichever order the two
\* were passed.
C6_PriorityProtection ==
    (Returned /\ Len(states) = 2) =>
        \A a, b \in 1..2 :
            ( /\ a # b
              /\ PriorityOf(a) > PriorityOf(b)
              /\ budget >= FullTokens(states[a]) + CompressedTokens(states[b])
              /\ budget < FullTokens(states[a]) + FullTokens(states[b]) )
            => /\ Len(fused.blocks) = 2
               /\ fused.blocks[1].source_claw_id = states[a].claw_id
               /\ fused.blocks[1].content = _format_full_block(states[a])
               /\ ~fused.blocks[1].is_compressed
               /\ fused.blocks[2].source_claw_id = states[b].claw_id
               /\ fused.blocks[2].content = _format_compressed_block(states[b])
               /\ fused.blocks[2].is_compressed

C6_Witness ==
    /\ Returned
    /\ Len(states) = 2
    /\ PriorityOf(2) > PriorityOf(1)
    /\ budget >= FullTokens(states[2]) + CompressedTokens(states[1])
    /\ budget < FullTokens(states[2]) + FullTokens(states[1])
    /\ Len(fused.blocks) = 2
    /\ fused.blocks[2].is_compressed

\* The position, in the order by descending priority with ties in the
\* order passed, of the Finding passed at position i.
Rank(i) ==
    1 + Cardinality({ j \in 1..Len(states) :
            \/ PriorityOf(j) > PriorityOf(i)
            \/ PriorityOf(j) = PriorityOf(i) /\ j < i })

ExpectedOrder ==
    [ r \in 1..Len(states) |-> states[CHOOSE i \in 1..Len(states) : Rank(i) = r] ]

BlockOf(block, state) ==
    /\ block.source_claw_id = state.claw_id
    /\ block.original_tokens = FullTokens(state)
    /\ block.content \in { _format_full_block(state),
                           _format_compressed_block(state),
                           _format_facts_only(state) }

\* blocks[i..] are blocks of a subsequence of order[j..]
RECURSIVE BlocksFollow(_, _, _, _)
BlocksFollow(blocks, i, order, j) ==
    IF i > Len(blocks) THEN TRUE
    ELSE IF j > Len(order) THEN FALSE
    ELSE IF BlockOf(blocks[i], order[j])
         THEN BlocksFollow(blocks, i + 1, order, j + 1)
         ELSE BlocksFollow(blocks, i, order, j + 1)

\* C7: on the over-budget path the Findings are walked in the order of
\* descending priority (0 without an entry, ties in the order passed), and
\* the blocks returned are blocks of a subsequence of the Findings in that
\* order, at most one per Finding.
C7_PriorityOrder ==
    (Returned /\ OverBudgetPath) =>
        /\ [ k \in 1..Len(paired) |-> paired[k][1] ] = ExpectedOrder
        /\ Len(fused.blocks) <= Len(states)
        /\ BlocksFollow(fused.blocks, 1, ExpectedOrder, 1)

C7_Witness ==
    /\ Returned
    /\ OverBudgetPath
    /\ Len(states) = 3
    /\ Len(fused.blocks) = 3
    /\ PriorityOf(1) = PriorityOf(2)
    /\ states[1].claw_id # states[2].claw_id
    /\ PriorityOf(3) > PriorityOf(1)

\* C8: fuse of an empty list returns no blocks, a total of 0 and no
\* compression, for any budget.
C8_EmptyInput ==
    (Returned /\ states = <<>>) =>
        /\ fused.blocks = <<>>
        /\ fused.total_tokens = 0
        /\ ~fused.compression_applied

\* C9: under a budget > 0 a Finding none of whose three renderings fits the
\* remaining budget adds no block and leaves the remaining budget as it is,
\* the loop goes on to the next Finding, and the call ends by returning a
\* FusedContext.
C9_DropNeverFail ==
    [][ budget > 0 =>
          /\ ( /\ pc = "walk"
               /\ idx <= Len(paired)
               /\ remaining_budget < FullTokens(paired[idx][1])
               /\ remaining_budget < CompressedTokens(paired[idx][1])
               /\ remaining_budget < FactsTokens(paired[idx][1]) )
             => ( /\ final_blocks' = final_blocks
                  /\ remaining_budget' = remaining_budget
                  /\ idx' = idx + 1
                  /\ pc' = "walk" )
          /\ pc' = "done" =>
                /\ result' # None
                /\ Len(result'[1].blocks) <= Len(states) ]_vars

C9_Witness ==
    /\ Returned
    /\ budget > 0
    /\ Len(states) = 2
    /\ fused.blocks = <<>>

\* The priority argument without the entries that match no Finding passed.
MatchedOnly(p) ==
    IF p = None THEN None
    ELSE LET ids == { states[i].claw_id : i \in 1..Len(states) }
         IN  Some([ k \in (DOMAIN p[1]) \cap ids |-> p[1][k] ])

\* C10: the entries of the priority map whose key is the claw_id of no
\* Finding passed change nothing: fuse returns what it returns without them.
C10_UnmatchedKeysIgnored ==
    Returned =>
        fused = fuse(states, token_budget, MatchedOnly(priorities),
                     self_token_budget)

C10_Witness ==
    /\ Returned
    /\ OverBudgetPath
    /\ priorities # None
    /\ "zz" \in DOMAIN priorities[1]
    /\ MatchedOnly(priorities) # priorities
    /\ Len(states) >= 2
    /\ Len(fused.blocks) >= 2
    /\ paired[1][1] # states[1]

\* C11: for every Finding with a non-empty raw context the COMPRESSED
\* rendering has at most the tokens of the FULL one and the FACTS-ONLY
\* rendering at most the tokens of the COMPRESSED one, a Finding without
\* facts (placeholder) or with an empty summary included.
C11_MonotoneDegradation ==
    Returned =>
        \A i \in 1..Len(states) :
            states[i].raw_context # <<>> =>
                /\ CompressedTokens(states[i]) <= FullTokens(states[i])
                /\ FactsTokens(states[i]) <= CompressedTokens(states[i])

\* C11: the order holds between COMPRESSED and FULL, and between FACTS-ONLY
\* and COMPRESSED for the Findings that have facts.
MonotoneDegradationWithFacts ==
    Returned =>
        \A i \in 1..Len(states) :
            /\ CompressedTokens(states[i]) <= FullTokens(states[i])
            /\ states[i].key_facts # <<>> =>
                   FactsTokens(states[i]) <= CompressedTokens(states[i])

\* ------------------------------------------------- orchestrator: the code
MaxClaws == 2

ClawIds == {"a", "b", "c"}

\* The claws handed to the Orchestrator: up to MaxClaws claws with distinct
\* claw ids, in any order.
ClawLists ==
    { cl \in SeqsUpTo(ClawIds, MaxClaws) :
        \A i, j \in 1..Len(cl) : cl[i] = cl[j] => i = j }

OrchestratorBudgets == {MaxBudget, DefaultTokenBudget}

QueryPriorities == {None, Some([c |-> 1])}

\* self.model
ModelId == "gpt-4o"

TokenUsage(p, c, t) ==
    [prompt_tokens |-> p, completion_tokens |-> c, total_tokens |-> t]

SynthesisResult(a, f, m, u) ==
    [answer |-> a, fused_context |-> f, model |-> m, usage |-> u]

\* What the completion call may return: message.content and usage, each of
\* which may be None.
Responses ==
    { [content |-> Some(<<"answer">>), usage |-> Some(TokenUsage(7, 2, 9))],
      [content |-> Some(<<"answer">>), usage |-> None],
      [content |-> None, usage |-> Some(TokenUsage(7, 0, 7))] }

\* choice.message.content or ""
answer_of(response) ==
    IF response.content = None \/ response.content[1] = <<>>
    THEN <<>> ELSE response.content[1]

\* Faulty variant: the usage reported is not copied.
usage_of_dropped(response) == TokenUsage(0, 0, 0)

\* The TokenUsage of the result: the usage reported, 0 in each field
\* without one.
usage_of(response) ==
    IF response.usage = None THEN TokenUsage(0, 0, 0)
    ELSE TokenUsage(response.usage[1].prompt_tokens,
                    response.usage[1].completion_tokens,
                    response.usage[1].total_tokens)

\* claw.run(input) of the claw with this claw_id, when it does not fail
claw_run(claw_id, input) ==
    CASE claw_id = "a" /\ input = "q1" ->
             StateObject("a", <<"alpha">>, <<Fact("k1", "v1", 50)>>,
                         <<"w", "w", "w">>, 3)
      [] claw_id = "a" /\ input # "q1" ->
             StateObject("a", <<>>, <<>>, <<"w">>, 0)
      [] claw_id = "b" ->
             StateObject("b", <<"beta", "beta", "beta">>, <<>>, <<"w", "w">>, 0)
      [] OTHER ->
             StateObject("c", <<"gamma">>,
                         <<Fact("k2", "v2", 100), Fact("k3", "v3", 50)>>, <<>>, 9)

\* Faulty variant: only the first claw is run.
invocations_first_only(cl, input) ==
    [ i \in 1..(IF cl = <<>> THEN 0 ELSE 1) |-> <<i, input>> ]

\* [claw.run(user_input) for claw in self.claws]
invocations(cl, input) == [ i \in 1..Len(cl) |-> <<i, input>> ]

\* Faulty variant: a result goes into the first free slot, in the order of
\* completion.
store_result_append(slots, i, v) ==
    LET k == CHOOSE k \in 1..Len(slots) :
                 slots[k] = None /\ \A j \in 1..(k - 1) : slots[j] # None
    IN  [slots EXCEPT ![k] = Some(v)]

\* asyncio.gather: the result of the i-th awaitable goes into the i-th slot
store_result(slots, i, v) == [slots EXCEPT ![i] = Some(v)]

\* Faulty variant: failures are collected, not raised (return_exceptions).
gather_outcome_no_raise(statuses) ==
    IF \A i \in 1..Len(statuses) : statuses[i] # "pending" THEN "return"
    ELSE "pending"

\* Faulty variant: gather returns as soon as one awaitable is done.
gather_outcome_first_done(statuses) ==
    IF \E i \in 1..Len(statuses) : statuses[i] = "failed" THEN "raise"
    ELSE IF statuses = <<>> \/ \E i \in 1..Len(statuses) : statuses[i] = "done"
    THEN "return"
    ELSE "pending"

\* Faulty variant: gather of no awaitables never returns.
gather_outcome_empty_pending(statuses) ==
    IF \E i \in 1..Len(statuses) : statuses[i] = "failed" THEN "raise"
    ELSE IF statuses # <<>> /\ \A i \in 1..Len(statuses) : statuses[i] = "done"
    THEN "return"
    ELSE "pending"

\* asyncio.gather without return_exceptions: the first failure is raised to
\* the awaiting query; the list is returned once every awaitable is done.
gather_outcome(statuses) ==
    IF \E i \in 1..Len(statuses) : statuses[i] = "failed" THEN "raise"
    ELSE IF \A i \in 1..Len(statuses) : statuses[i] = "done" THEN "return"
    ELSE "pending"

\* list(states): the results in the order of their slots
gathered(slots) ==
    LET present == SelectSeq(slots, LAMBDA s : s # None)
    IN  [ i \in 1..Len(present) |-> present[i][1] ]

\* Faulty variant: the fuser keeps its running budget on the instance.
fuser_budget_spent(b, f) == b - f.total_tokens

\* self.token_budget after a call of fuse: fuse assigns nothing on self
fuser_budget_after(b, f) == b

\* Faulty variant: the blocks are emitted in reverse order.
build_prompt_reversed(f, user_query) ==
    Join( << <<"<FUSED_CONTEXT>">> >>
          \o [ j \in 1..(3 * Len(f.blocks)) |->
                 LET block == f.blocks[Len(f.blocks) - ((j - 1) \div 3)]
                     tag == IF block.is_compressed THEN "COMPRESSED" ELSE "FULL"
                 IN  CASE j % 3 = 1 ->
                              <<"<CONTEXT_BLOCK source=\"", block.source_claw_id,
                                "\" fidelity=\"", tag, "\">">>
                       [] j % 3 = 2 -> block.content
                       [] OTHER -> <<"</CONTEXT_BLOCK>">> ]
          \o << <<"</FUSED_CONTEXT>">>, <<>>,
                <<"<USER_QUERY>", user_query, "</USER_QUERY>">> >> )

\* Faulty variant: every block is tagged FULL.
build_prompt_all_full(f, user_query) ==
    Join( << <<"<FUSED_CONTEXT>">> >>
          \o [ j \in 1..(3 * Len(f.blocks)) |->
                 LET block == f.blocks[((j - 1) \div 3) + 1]
                 IN  CASE j % 3 = 1 ->
                              <<"<CONTEXT_BLOCK source=\"", block.source_claw_id,
                                "\" fidelity=\"", "FULL", "\">">>
                       [] j % 3 = 2 -> block.content
                       [] OTHER -> <<"</CONTEXT_BLOCK>">> ]
          \o << <<"</FUSED_CONTEXT>">>, <<>>,
                <<"<USER_QUERY>", user_query, "</USER_QUERY>">> >> )

\* build_prompt: three parts per block (header, content, closing tag)
\* between the wrapper parts, an empty part and the query part, joined by
\* newlines.
build_prompt(f, user_query) ==
    Join( << <<"<FUSED_CONTEXT>">> >>
          \o [ j \in 1..(3 * Len(f.blocks)) |->
                 LET block == f.blocks[((j - 1) \div 3) + 1]
                     tag == IF block.is_compressed THEN "COMPRESSED" ELSE "FULL"
                 IN  CASE j % 3 = 1 ->
                              <<"<CONTEXT_BLOCK source=\"", block.source_claw_id,
                                "\" fidelity=\"", tag, "\">">>
                       [] j % 3 = 2 -> block.content
                       [] OTHER -> <<"</CONTEXT_BLOCK>">> ]
          \o << <<"</FUSED_CONTEXT>">>, <<>>,
                <<"<USER_QUERY>", user_query, "</USER_QUERY>">> >> )

\* Faulty variant: a failed completion call is issued again.
after_synthesis_error_retry == "fused"

\* An exception of the completion call is not caught: the query fails.
after_synthesis_error == "failed"

\* ------------------------------------------------- orchestrator: actions
allvars == <<self_token_budget, fvars, qvars, rvars>>

\* Orchestrator(claws, token_budget=...): no query has been made; the
\* variables of a single fuse call are not used.
QInit ==
    /\ self_token_budget \in OrchestratorBudgets
    /\ claws \in ClawLists
    /\ NoQuery
    /\ NoRegistry
    /\ states = <<>>
    /\ token_budget = None
    /\ priorities = None
    /\ pc = "unused"
    /\ paired = <<>>
    /\ idx = 0
    /\ final_blocks = <<>>
    /\ remaining_budget = 0
    /\ result = None

\* Between the return of gather and the suspension in the completion call
\* the query does not await: no other coroutine runs while it is there.
Running == \E r \in Queries : q_pc[r] \in {"fusing", "fused"}

\* query(user_input, priorities), up to the suspension in gather: every
\* claw.run(user_input) is called and scheduled, none has run yet.
QueryStart(q, p) ==
    /\ ~Running
    /\ q_pc[q] = "idle"
    /\ q_pc' = [q_pc EXCEPT ![q] = "gather"]
    /\ q_priorities' = [q_priorities EXCEPT ![q] = p]
    /\ run_log' = [run_log EXCEPT ![q] = invocations(claws, q)]
    /\ task' = [task EXCEPT ![q] = [i \in 1..Len(run_log'[q]) |-> "pending"]]
    /\ results' = [results EXCEPT ![q] = [i \in 1..Len(run_log'[q]) |-> None]]
    /\ UNCHANGED <<self_token_budget, fvars, claws, q_response, completion, q_states,
                   q_fused, q_prompt, synth_calls, q_result, q_error>>
    /\ UNCHANGED rvars

\* The run of the claw at position i returns its StateObject.  A failure of
\* a sibling does not cancel it.
ProducerComplete(q, i) ==
    /\ ~Running
    /\ q_pc[q] # "idle"
    /\ i \in 1..Len(task[q])
    /\ task[q][i] = "pending"
    /\ task' = [task EXCEPT ![q][i] = "done"]
    /\ results' = [results EXCEPT
                     ![q] = store_result(@, i, claw_run(claws[run_log[q][i][1]],
                                                       run_log[q][i][2]))]
    /\ completion' = [completion EXCEPT ![q] = Append(@, i)]
    /\ UNCHANGED <<self_token_budget, fvars, claws, q_response, q_pc, q_priorities,
                   run_log, q_states, q_fused, q_prompt, synth_calls,
                   q_result, q_error>>
    /\ UNCHANGED rvars

\* The run of the claw at position i raises.
ProducerFail(q, i) ==
    /\ ~Running
    /\ q_pc[q] # "idle"
    /\ i \in 1..Len(task[q])
    /\ task[q][i] = "pending"
    /\ task' = [task EXCEPT ![q][i] = "failed"]
    /\ completion' = [completion EXCEPT ![q] = Append(@, i)]
    /\ UNCHANGED <<self_token_budget, fvars, claws, q_response, q_pc, q_priorities,
                   run_log, results, q_states, q_fused, q_prompt, synth_calls,
                   q_result, q_error>>
    /\ UNCHANGED rvars

\* gather raises the failure of a claw into query, which does not catch it.
GatherRaise(q) ==
    /\ ~Running
    /\ q_pc[q] = "gather"
    /\ gather_outcome(task[q]) = "raise"
    /\ q_pc' = [q_pc EXCEPT ![q] = "failed"]
    /\ q_error' = [q_error EXCEPT ![q] = Some("producer")]
    /\ UNCHANGED <<self_token_budget, fvars, claws, q_response, q_priorities, run_log,
                   task, results, completion, q_states, q_fused, q_prompt,
                   synth_calls, q_result>>
    /\ UNCHANGED rvars

\* gather returns the list of results; query fuses it.
QueryFuse(q) ==
    /\ ~Running
    /\ q_pc[q] = "gather"
    /\ gather_outcome(task[q]) = "return"
    /\ LET sts == gathered(results[q])
           f == fuse(sts, None, q_priorities[q], self_token_budget)
       IN  /\ q_states' = [q_states EXCEPT ![q] = Some(sts)]
           /\ q_fused' = [q_fused EXCEPT ![q] = Some(f)]
           /\ self_token_budget' = fuser_budget_after(self_token_budget, f)
    /\ q_pc' = [q_pc EXCEPT ![q] = "fused"]
    /\ UNCHANGED <<fvars, claws, q_response, q_priorities, run_log, task, results,
                   completion, q_prompt, synth_calls, q_result, q_error>>
    /\ UNCHANGED rvars

\* _synthesize, up to the suspension in the completion call: the prompt is
\* built and the call is issued.
QuerySynthesize(q) ==
    /\ q_pc[q] = "fused"
    /\ q_prompt' = [q_prompt EXCEPT ![q] = Some(build_prompt(q_fused[q][1], q))]
    /\ synth_calls' = [synth_calls EXCEPT ![q] = @ + 1]
    /\ q_pc' = [q_pc EXCEPT ![q] = "synth"]
    /\ UNCHANGED <<self_token_budget, fvars, claws, q_response, q_priorities, run_log,
                   task, results, completion, q_states, q_fused, q_result,
                   q_error>>
    /\ UNCHANGED rvars

\* The completion call returns; _synthesize builds the SynthesisResult.
SynthReturn(q, response) ==
    /\ ~Running
    /\ q_pc[q] = "synth"
    /\ q_response' = [q_response EXCEPT ![q] = Some(response)]
    /\ q_result' = [q_result EXCEPT
                      ![q] = Some(SynthesisResult(answer_of(response),
                                                  q_fused[q][1], ModelId,
                                                  usage_of(response)))]
    /\ q_pc' = [q_pc EXCEPT ![q] = "returned"]
    /\ UNCHANGED <<self_token_budget, fvars, claws, q_priorities, run_log,
                   task, results, completion, q_states, q_fused, q_prompt,
                   synth_calls, q_error>>
    /\ UNCHANGED rvars

\* The completion call raises; neither _synthesize nor query catches it.
SynthFail(q) ==
    /\ ~Running
    /\ q_pc[q] = "synth"
    /\ q_pc' = [q_pc EXCEPT ![q] = after_synthesis_error]
    /\ q_error' = [q_error EXCEPT ![q] = Some("synthesis")]
    /\ UNCHANGED <<self_token_budget, fvars, claws, q_response, q_priorities, run_log,
                   task, results, completion, q_states, q_fused, q_prompt,
                   synth_calls, q_result>>
    /\ UNCHANGED rvars

QNext ==
    \E q \in Queries :
        \/ \E p \in QueryPriorities : QueryStart(q, p)
        \/ \E i \in 1..MaxClaws : ProducerComplete(q, i)
        \/ \E i \in 1..MaxClaws : ProducerFail(q, i)
        \/ GatherRaise(q)
        \/ QueryFuse(q)
        \/ QuerySynthesize(q)
        \/ \E response \in Responses : SynthReturn(q, response)
        \/ SynthFail(q)

SpecQuery == QInit /\ [][QNext]_allvars

\* ------------------------------------------------- orchestrator: claims
\* The StateObjects of the claws, in the order of Orchestrator.claws.
ProducerOutputs(q) == [ i \in 1..Len(claws) |-> claw_run(claws[i], q) ]

Failed(q) == \E i \in 1..Len(task[q]) : task[q][i] = "failed"

AllDone(q) ==
    /\ Len(task[q]) = Len(claws)
    /\ \A i \in 1..Len(task[q]) : task[q][i] = "done"

\* C12: the list query passes to fuse holds the StateObjects of the claws
\* in the order of the claws, whatever the order in which their runs
\* completed.
C12_ProducerOrder ==
    \A q \in Queries :
        q_states[q] # None => q_states[q][1] = ProducerOutputs(q)

\* A query has fused after its second claw completed before its first.
C12_Witness ==
    \E q \in Queries :
        /\ q_states[q] # None
        /\ completion[q] = <<2, 1>>
        /\ q_states[q][1][1].claw_id # q_states[q][1][2].claw_id

\* C13: once the run of a claw has failed, the query never fuses, never
\* issues the completion call and never returns a SynthesisResult, also
\* after the other claws have completed; when it ends, it ends with the
\* failure of a claw.
C13_ProducerFailureAborts ==
    \A q \in Queries :
        Failed(q) =>
            /\ q_pc[q] \in {"gather", "failed"}
            /\ q_states[q] = None
            /\ q_fused[q] = None
            /\ q_prompt[q] = None
            /\ synth_calls[q] = 0
            /\ q_result[q] = None
            /\ q_pc[q] = "failed" => q_error[q] = Some("producer")

\* The query has failed on its first claw, and its second claw has completed
\* after that failure.
C13_Witness ==
    \E q \in Queries :
        /\ q_pc[q] = "failed"
        /\ q_error[q] = Some("producer")
        /\ completion[q] = <<1, 2>>
        /\ task[q] = <<"failed", "done">>
        /\ results[q][2] # None

\* C14: a query issues at most one completion call; a query that has
\* returned issued exactly one; the call is issued only after every claw
\* has completed, fuse has returned and the prompt is built.
C14_OneSynthesisCall ==
    \A q \in Queries :
        /\ synth_calls[q] <= 1
        /\ q_result[q] # None => synth_calls[q] = 1
        /\ q_pc[q] = "returned" <=> q_result[q] # None
        /\ synth_calls[q] >= 1 =>
               /\ AllDone(q)
               /\ q_states[q] # None /\ Len(q_states[q][1]) = Len(claws)
               /\ q_fused[q] # None
               /\ q_prompt[q] # None

\* A query over two claws has returned its SynthesisResult.
C14_Witness ==
    \E q \in Queries :
        /\ q_pc[q] = "returned"
        /\ q_result[q] # None
        /\ Len(claws) = 2
        /\ synth_calls[q] = 1

\* C15: when the completion call has failed the query has failed: it has
\* no SynthesisResult, the call was issued once, and every claw was run
\* once.
C15_SynthesisFailureAborts ==
    \A q \in Queries :
        q_error[q] = Some("synthesis") =>
            /\ q_pc[q] = "failed"
            /\ q_result[q] = None
            /\ synth_calls[q] = 1
            /\ Len(run_log[q]) = Len(claws)
            /\ Len(completion[q]) = Len(claws)

\* The completion call of a query over two claws has failed.
C15_Witness ==
    \E q \in Queries :
        /\ q_error[q] = Some("synthesis")
        /\ q_pc[q] = "failed"
        /\ Len(claws) = 2

\* C16: a query that has started has called the run of every claw once,
\* each with the input of the query, and has done so by the time it waits
\* in gather; a query that has not started has called none.
C16_AllInvokedOnce ==
    \A q \in Queries :
        /\ q_pc[q] = "idle" => run_log[q] = <<>>
        /\ q_pc[q] # "idle" =>
               /\ Len(run_log[q]) = Len(claws)
               /\ \A i \in 1..Len(claws) : run_log[q][i] = <<i, q>>
               /\ Len(task[q]) = Len(claws)
               /\ Len(completion[q]) <= Len(claws)

\* A query over two claws waits in gather; none of the runs has finished.
C16_Witness ==
    \E q \in Queries :
        /\ q_pc[q] = "gather"
        /\ Len(run_log[q]) = 2
        /\ task[q] = <<"pending", "pending">>

\* What fuse returns for the outputs of the claws, taken in the order of
\* Orchestrator.claws.
FusedAlone(q, p, b) == fuse(ProducerOutputs(q), None, p, b)

\* C17: the FusedContext and the prompt of a query are functions of the
\* outputs of the claws, the order of the claws, the priorities and the
\* budget: they do not depend on the order in which the runs completed.
C17_Determinism ==
    \A q \in Queries :
        /\ q_fused[q] # None =>
               q_fused[q][1] = FusedAlone(q, q_priorities[q], self_token_budget)
        /\ q_prompt[q] # None =>
               q_prompt[q][1] =
                   build_prompt(FusedAlone(q, q_priorities[q], self_token_budget), q)

\* A prompt has been built for a compressed context with priorities, the
\* second claw having completed before the first.
C17_Witness ==
    \E q \in Queries :
        /\ q_prompt[q] # None
        /\ completion[q] = <<2, 1>>
        /\ q_priorities[q] # None
        /\ q_fused[q][1].compression_applied
        /\ Len(q_fused[q][1].blocks) = 2

\* C18: a call of fuse leaves the budget of the ContextFuser as it was, and
\* the FusedContext a query obtains is the one fuse returns for its own
\* claw outputs and priorities under that budget, whatever the other query
\* has done in between.
C18_NoSharedBudget ==
    [][ /\ self_token_budget' = self_token_budget
        /\ \A q \in Queries :
               q_fused'[q] # q_fused[q] =>
                   q_fused'[q] =
                       Some(FusedAlone(q, q_priorities[q], self_token_budget)) ]_allvars

\* Both queries have fused under compression, one of them while the
\* completion call of the other was in flight.
C18_Witness ==
    /\ q_pc["q1"] = "synth"
    /\ q_pc["q2"] = "fused"
    /\ q_fused["q1"][1].compression_applied
    /\ q_fused["q2"][1].compression_applied
    /\ q_fused["q1"] # q_fused["q2"]

\* ---------------------------------------------------- reading a prompt
\* The positions at which a section of a block opens.
section_starts(text) ==
    { p \in 1..Len(text) : text[p] = "<CONTEXT_BLOCK source=\"" }

\* The position of the first closing tag at or after p.
section_end(text, p) ==
    CHOOSE e \in p..Len(text) :
        /\ text[e] = "</CONTEXT_BLOCK>"
        /\ \A r \in p..(e - 1) : text[r] # "</CONTEXT_BLOCK>"

\* The source, the fidelity tag and the content of the section opening at p.
section_at(text, p) ==
    [ source |-> text[p + 1],
      fidelity |-> text[p + 3],
      content |-> SubSeq(text, p + 6, section_end(text, p) - 2),
      end |-> section_end(text, p) ]

\* The sections of a prompt, in the order in which they appear.
sections(text) ==
    LET S == section_starts(text)
        nth(k) == CHOOSE p \in S : Cardinality({ r \in S : r < p }) = k - 1
    IN  [ k \in 1..Cardinality(S) |-> section_at(text, nth(k)) ]

\* The output of the claw with this claw id.
OutputOf(q, id) ==
    LET i == CHOOSE i \in 1..Len(claws) : claws[i] = id
    IN  ProducerOutputs(q)[i]

\* C19: the prompt has one section per block of the FusedContext, in the
\* order of the blocks, each with the source id and the unchanged content
\* of its block, and the query comes after the last section; building the
\* prompt again gives the same text; building it changes neither the
\* FusedContext nor anything else of the query or the fuser.
C19_PromptSections ==
    [][ \A q \in Queries :
          q_prompt'[q] # q_prompt[q] =>
              LET f == q_fused[q][1]
                  text == q_prompt'[q][1]
                  secs == sections(text)
              IN  /\ Len(secs) = Len(f.blocks)
                  /\ \A k \in 1..Len(secs) :
                         /\ secs[k].source = f.blocks[k].source_claw_id
                         /\ secs[k].content = f.blocks[k].content
                         /\ secs[k].end < Len(text) - 2
                  /\ SubSeq(text, Len(text) - 2, Len(text))
                         = <<"<USER_QUERY>", q, "</USER_QUERY>">>
                  /\ text = build_prompt(f, q)
                  /\ q_fused' = q_fused
                  /\ q_states' = q_states
                  /\ results' = results
                  /\ q_result' = q_result
                  /\ self_token_budget' = self_token_budget
                  /\ claws' = claws ]_allvars

\* A prompt has been built from two blocks of different claws.
C19_Witness ==
    \E q \in Queries :
        /\ q_prompt[q] # None
        /\ Len(q_fused[q][1].blocks) = 2
        /\ Len(sections(q_prompt[q][1])) = 2
        /\ sections(q_prompt[q][1])[1].source # sections(q_prompt[q][1])[2].source
        /\ sections(q_prompt[q][1])[1].content # <<>>

\* C20: the prompt contains the query string; the section of a block is
\* tagged FULL exactly when the block holds the full rendering of its
\* StateObject and COMPRESSED exactly when it holds the compressed or the
\* facts-only rendering instead.
C20_PromptTags ==
    \A q \in Queries :
        q_prompt[q] # None =>
            LET f == q_fused[q][1]
                text == q_prompt[q][1]
                secs == sections(text)
            IN  /\ \E p \in 1..Len(text) : text[p] = q
                /\ Len(secs) = Len(f.blocks)
                /\ \A k \in 1..Len(secs) :
                       LET state == OutputOf(q, f.blocks[k].source_claw_id)
                           is_full == f.blocks[k].content = _format_full_block(state)
                       IN  /\ secs[k].fidelity \in {"FULL", "COMPRESSED"}
                           /\ secs[k].fidelity = "FULL" <=> is_full
                           /\ secs[k].fidelity = "COMPRESSED" <=>
                                  /\ ~is_full
                                  /\ f.blocks[k].content \in
                                         { _format_compressed_block(state),
                                           _format_facts_only(state) }
                           /\ secs[k].fidelity = "COMPRESSED" <=>
                                  f.blocks[k].is_compressed

\* A prompt holds a FULL section and a COMPRESSED section.
C20_Witness ==
    \E q \in Queries :
        /\ q_prompt[q] # None
        /\ \E k \in 1..Len(sections(q_prompt[q][1])) :
               sections(q_prompt[q][1])[k].fidelity = "FULL"
        /\ \E k \in 1..Len(sections(q_prompt[q][1])) :
               sections(q_prompt[q][1])[k].fidelity = "COMPRESSED"

\* ------------------------------------------------------- fuse: more claims
\* The token_count values a claw may report for the same content.
AdvisoryCounts == {0, 1, 40}

\* The same Findings, each with token_count n.
with_token_count(sts, n) ==
    [ i \in 1..Len(sts) |-> [sts[i] EXCEPT !.token_count = n] ]

\* C21: fuse returns the same FusedContext for Findings that differ only
\* in their token_count.
C21_TokenCountIgnored ==
    Returned =>
        \A n \in AdvisoryCounts :
            fuse(with_token_count(states, n), token_budget, priorities,
                 self_token_budget) = fused

\* fuse has returned a compressed block for Findings whose token_count is
\* neither the size of the raw context nor of any rendering.
C21_Witness ==
    /\ Returned
    /\ fused.compression_applied
    /\ Len(fused.blocks) >= 2
    /\ \E j \in 1..Len(fused.blocks) : fused.blocks[j].is_compressed
    /\ \E i \in 1..Len(states) :
           /\ states[i].token_count # Len(states[i].raw_context)
           /\ states[i].token_count \notin
                  { FullTokens(states[i]), CompressedTokens(states[i]),
                    FactsTokens(states[i]) }

\* The rendering the ladder chooses for a state under a remaining budget:
\* the first of the three that fits, none when none fits.
FirstFit(state, remaining) ==
    IF FullTokens(state) <= remaining
    THEN <<_format_full_block(state)>>
    ELSE IF CompressedTokens(state) <= remaining
    THEN <<_format_compressed_block(state)>>
    ELSE IF FactsTokens(state) <= remaining
    THEN <<_format_facts_only(state)>>
    ELSE <<>>

\* C26: an iteration of the loop gives the state at its turn the first of
\* the full, compressed and facts-only renderings that fits in the remaining
\* budget, or nothing; the remaining budget goes down by the tokens of that
\* rendering (by 0 for nothing); the blocks appended before stay as they are.
C26_FirstFit ==
    [][ (pc = "walk" /\ idx' = idx + 1) =>
          LET state == paired[idx][1]
              chosen == FirstFit(state, remaining_budget)
          IN  /\ Len(final_blocks') = Len(final_blocks) + Len(chosen)
              /\ SubSeq(final_blocks', 1, Len(final_blocks)) = final_blocks
              /\ chosen # <<>> =>
                     /\ final_blocks'[Len(final_blocks')].content = chosen[1]
                     /\ final_blocks'[Len(final_blocks')].source_claw_id
                            = state.claw_id
                     /\ remaining_budget'
                            = remaining_budget - count_tokens(chosen[1])
              /\ chosen = <<>> => remaining_budget' = remaining_budget
              /\ paired' = paired ]_vars

\* Three states have had their turn: the first was kept in full, the second
\* was compressed, the third was dropped.
C26_Witness ==
    /\ pc = "walk"
    /\ idx = 4
    /\ Len(final_blocks) = 2
    /\ final_blocks[1].content = _format_full_block(paired[1][1])
    /\ final_blocks[2].content = _format_compressed_block(paired[2][1])
    /\ final_blocks[2].is_compressed
    /\ remaining_budget >= 0

\* C27: a block that is not marked compressed has original_tokens and
\* final_tokens equal to the tokens of the full rendering of its state; a
\* block holding the compressed or the facts-only rendering is marked
\* compressed, keeps the tokens of the full rendering as original_tokens,
\* has the tokens of its content as final_tokens, and these are fewer.
C27_BlockMetadata ==
    Returned =>
        \A j \in 1..Len(fused.blocks) :
            LET block == fused.blocks[j]
            IN  \E i \in 1..Len(states) :
                    /\ block.source_claw_id = states[i].claw_id
                    /\ block.original_tokens = FullTokens(states[i])
                    /\ block.final_tokens = count_tokens(block.content)
                    /\ IF block.is_compressed
                       THEN /\ block.content \in
                                   { _format_compressed_block(states[i]),
                                     _format_facts_only(states[i]) }
                            /\ block.final_tokens < block.original_tokens
                       ELSE /\ block.content = _format_full_block(states[i])
                            /\ block.final_tokens = block.original_tokens

\* fuse has returned a full block, a compressed block and a facts-only
\* block.
C27_Witness ==
    /\ Returned
    /\ Len(fused.blocks) = 3
    /\ \E j \in 1..3 : ~fused.blocks[j].is_compressed
    /\ \E j \in 1..3, i \in 1..3 :
           /\ fused.blocks[j].is_compressed
           /\ fused.blocks[j].content = _format_compressed_block(states[i])
    /\ \E j \in 1..3, i \in 1..3 :
           /\ fused.blocks[j].is_compressed
           /\ fused.blocks[j].content = _format_facts_only(states[i])
           /\ fused.blocks[j].content # _format_compressed_block(states[i])

\* C28: a token_budget that is given is the budget of the call: the loop
\* starts with it as the remaining budget, and the full merge is returned
\* only when the full renderings fit in it; self.token_budget is the budget
\* only when token_budget is None.
C28_BudgetOverride ==
    /\ token_budget # None =>
           /\ (pc = "walk" /\ idx = 1) => remaining_budget = token_budget[1]
           /\ (Returned /\ ~fused.compression_applied) =>
                  FullSum(states) <= token_budget[1]
    /\ token_budget = None =>
           /\ (pc = "walk" /\ idx = 1) => remaining_budget = self_token_budget
           /\ (Returned /\ ~fused.compression_applied) =>
                  FullSum(states) <= self_token_budget

\* The claim of C28 for every token_budget but 0.
BudgetOverrideUnlessZero ==
    token_budget # Some(0) => C28_BudgetOverride

\* C29: the state at its turn is kept in full exactly when its full
\* rendering fits in the budget less the tokens of the blocks appended
\* before it; the first to have its turn is the state of the highest
\* priority, the earliest passed among equals, and is kept in full exactly
\* when its full rendering fits in the budget.
C29_FullWhenFits ==
    [][ (pc = "walk" /\ idx' = idx + 1) =>
          LET state == paired[idx][1]
              kept_full ==
                  /\ Len(final_blocks') = Len(final_blocks) + 1
                  /\ ~final_blocks'[Len(final_blocks')].is_compressed
                  /\ final_blocks'[Len(final_blocks')].content
                         = _format_full_block(state)
          IN  /\ kept_full <=>
                     FullTokens(state)
                         <= budget - sum_final_tokens(final_blocks)
              /\ idx = 1 =>
                     /\ state = ExpectedOrder[1]
                     /\ kept_full <=> FullTokens(state) <= budget ]_vars

\* The state of the highest priority, passed last of three, has had its
\* turn first and was kept in full; the three do not fit in full.
C29_Witness ==
    /\ pc = "walk"
    /\ idx = 2
    /\ Len(states) = 3
    /\ paired[1][1] = states[3]
    /\ states[3] # states[1]
    /\ PriorityOf(3) > PriorityOf(1)
    /\ PriorityOf(3) > PriorityOf(2)
    /\ Len(final_blocks) = 1
    /\ ~final_blocks[1].is_compressed

\* ------------------------------------------------ orchestrator: the result
\* C22: the SynthesisResult of a query has 0 in the three usage fields when
\* the completion call returned no usage and the values reported when it
\* returned one; it holds the FusedContext fuse returned for this query
\* and the model of the Orchestrator.
C22_ResultFields ==
    \A q \in Queries :
        q_result[q] # None =>
            LET res == q_result[q][1]
                response == q_response[q][1]
            IN  /\ response.usage = None =>
                       /\ res.usage.prompt_tokens = 0
                       /\ res.usage.completion_tokens = 0
                       /\ res.usage.total_tokens = 0
                /\ response.usage # None =>
                       /\ res.usage.prompt_tokens = response.usage[1].prompt_tokens
                       /\ res.usage.completion_tokens
                              = response.usage[1].completion_tokens
                       /\ res.usage.total_tokens = response.usage[1].total_tokens
                /\ res.fused_context = q_fused[q][1]
                /\ res.fused_context
                       = FusedAlone(q, q_priorities[q], self_token_budget)
                /\ res.model = ModelId

\* One query has returned on a response without usage, the other on a
\* response with usage, over a compressed context.
C22_Witness ==
    /\ q_result["q1"] # None
    /\ q_result["q2"] # None
    /\ q_response["q1"][1].usage = None
    /\ q_response["q2"][1].usage # None
    /\ q_result["q2"][1].usage.total_tokens > 0
    /\ q_result["q2"][1].fused_context.compression_applied

\* -------------------------------------------- fuse: the pricing scenario
MaxSummaryLen == 14

Rep(tok, n) == [ i \in 1..n |-> tok ]

\* A StateObject with the given facts and a summary of s tokens, whose raw
\* context is as long as it takes for the full rendering to have `full`
\* tokens.
Padded(id, facts, s, full) ==
    LET short == StateObject(id, Rep("s", s), facts, <<"w">>, 0)
    IN  [short EXCEPT !.raw_context = Rep("w", full - FullTokens(short) + 1)]

\* The facts of product: uptime, alone or followed by three more.
ProductFacts ==
    { <<Fact("uptime", "99.95%", 100)>>,
      <<Fact("uptime", "99.95%", 100), Fact("sla", "gold", 100),
        Fact("region", "eu", 100), Fact("tier", "pro", 100)>> }

Pricing == Padded("pricing", <<Fact("price", "$49", 100)>>, 2, 80)

Products ==
    { Padded("product", facts, s, 90) :
        facts \in ProductFacts, s \in 0..MaxSummaryLen }

\* fuse is called with pricing and a product, in either order, priorities
\* {pricing: 5, product: 1} and a budget of 1000 or of 100.
ExampleInit ==
    /\ self_token_budget = DefaultTokenBudget
    /\ \E product \in Products :
           states \in { <<Pricing, product>>, <<product, Pricing>> }
    /\ token_budget \in {Some(1000), Some(100)}
    /\ priorities = Some([pricing |-> 5, product |-> 1])
    /\ pc = "call"
    /\ paired = <<>>
    /\ idx = 0
    /\ final_blocks = <<>>
    /\ remaining_budget = 0
    /\ result = None
    /\ claws = <<>>
    /\ NoQuery
    /\ NoRegistry

SpecExample == ExampleInit /\ [][Next]_vars

ProductOf(sts) == IF sts[1].claw_id = "product" THEN sts[1] ELSE sts[2]

ProductBlocks ==
    { j \in 1..Len(fused.blocks) : fused.blocks[j].source_claw_id = "product" }

PricingKeptFull ==
    /\ Len(fused.blocks) >= 1
    /\ fused.blocks[1].source_claw_id = "pricing"
    /\ ~fused.blocks[1].is_compressed
    /\ fused.blocks[1].final_tokens = 80
    /\ fused.blocks[1].content = _format_full_block(Pricing)

ProductCompressed ==
    /\ Len(fused.blocks) = 2
    /\ fused.blocks[2].source_claw_id = "product"
    /\ fused.blocks[2].is_compressed
    /\ fused.blocks[2].content = _format_compressed_block(ProductOf(states))

ProductFactsOnly ==
    /\ Len(fused.blocks) = 2
    /\ fused.blocks[2].source_claw_id = "product"
    /\ fused.blocks[2].is_compressed
    /\ fused.blocks[2].content = _format_facts_only(ProductOf(states))

\* C23, as claimed: under the budget of 100 pricing is kept in full with 80
\* tokens, and product is compressed when its compressed rendering has at
\* most 20 tokens and has no block when it has more.
C23_Scenario ==
    (Returned /\ token_budget = Some(100)) =>
        /\ PricingKeptFull
        /\ CompressedTokens(ProductOf(states)) <= 20 => ProductCompressed
        /\ CompressedTokens(ProductOf(states)) > 20 => ProductBlocks = {}

\* C23, amended: under the budget of 100 pricing is kept in full with 80
\* tokens; product is compressed when its compressed rendering has at most
\* 20 tokens; otherwise it is included facts-only when its facts-only
\* rendering has at most 20 tokens, and has no block only when that has more
\* than 20 too.
C23_ScenarioWithFactsOnly ==
    (Returned /\ token_budget = Some(100)) =>
        /\ PricingKeptFull
        /\ CompressedTokens(ProductOf(states)) <= 20 => ProductCompressed
        /\ (/\ CompressedTokens(ProductOf(states)) > 20
            /\ FactsTokens(ProductOf(states)) <= 20) => ProductFactsOnly
        /\ (/\ CompressedTokens(ProductOf(states)) > 20
            /\ FactsTokens(ProductOf(states)) > 20) => ProductBlocks = {}

\* Under the budget of 100, the compressed rendering of product has more
\* than 20 tokens and product is included facts-only, behind pricing in full.
C23_Witness ==
    /\ Returned
    /\ token_budget = Some(100)
    /\ FullTokens(ProductOf(states)) = 90
    /\ CompressedTokens(ProductOf(states)) > 20
    /\ PricingKeptFull
    /\ ProductFactsOnly
    /\ fused.total_tokens <= 100

\* The first half of the scenario: under the budget of 1000 both are
\* included in full, with a total of 170 and no compression.
ScenarioFullMerge ==
    (Returned /\ token_budget = Some(1000)) =>
        /\ Len(fused.blocks) = 2
        /\ \A j \in 1..2 : ~fused.blocks[j].is_compressed
        /\ fused.total_tokens = 170
        /\ ~fused.compression_applied

ScenarioAllOutcomes ==
    /\ \E product \in Products : CompressedTokens(product) <= 20
    /\ \E product \in Products :
           CompressedTokens(product) > 20 /\ FactsTokens(product) <= 20
    /\ \E product \in Products : FactsTokens(product) > 20
    /\ \A product \in Products : FullTokens(product) = 90

\* -------------------------------------------------------- registry: code
MaxOps == 4

RegistryIds == {"a", "b"}

\* The claw ids asked for: those of the claws and one no claw has.
RequestedIds == RegistryIds \cup {"zz"}

\* Two claw objects for each claw id.
ClawObjects == { [claw_id |-> id, instance |-> n] : id \in RegistryIds, n \in 1..2 }

SelectArgs == SeqsUpTo(RequestedIds, 2)

Outcome(o, ids, r, v) == [op |-> o, ids |-> ids, raised |-> r, value |-> v]

\* self._claws.get(claw_id)
registry_get(d, claw_id) ==
    IF \E i \in 1..Len(d) : d[i][1] = claw_id
    THEN Some(d[CHOOSE i \in 1..Len(d) : d[i][1] = claw_id][2])
    ELSE None

\* Faulty variant: the claw is appended, an item with the same claw_id stays.
registry_add_append(d, claw) == Append(d, <<claw.claw_id, claw>>)

\* self._claws[claw.claw_id] = claw: a key already there keeps its place and
\* gets the new value, a new key goes to the end.
registry_add(d, claw) ==
    IF \E i \in 1..Len(d) : d[i][1] = claw.claw_id
    THEN [ i \in 1..Len(d) |->
             IF d[i][1] = claw.claw_id THEN <<claw.claw_id, claw>> ELSE d[i] ]
    ELSE Append(d, <<claw.claw_id, claw>>)

\* self._claws.pop(claw_id, None)
registry_remove(d, claw_id) == SelectSeq(d, LAMBDA item : item[1] # claw_id)

\* len(self._claws)
registry_len(d) == Len(d)

\* claw_id in self._claws
registry_contains(d, claw_id) == \E i \in 1..Len(d) : d[i][1] = claw_id

\* Faulty variant: an id that is not found is skipped.
RECURSIVE registry_select_skip(_, _, _, _)
registry_select_skip(d, ids, i, res) ==
    IF i > Len(ids) THEN Outcome("select", ids, None, Some(res))
    ELSE LET claw == registry_get(d, ids[i])
         IN  IF claw = None
             THEN registry_select_skip(d, ids, i + 1, res)
             ELSE registry_select_skip(d, ids, i + 1, Append(res, claw[1]))

\* Faulty variant: a claw found is put in front of the result.
RECURSIVE registry_select_reversed(_, _, _, _)
registry_select_reversed(d, ids, i, res) ==
    IF i > Len(ids) THEN Outcome("select", ids, None, Some(res))
    ELSE LET claw == registry_get(d, ids[i])
         IN  IF claw = None
             THEN Outcome("select", ids, Some(ids[i]), None)
             ELSE registry_select_reversed(d, ids, i + 1, <<claw[1]>> \o res)

\* select: the loop over ids from position i on, with the result so far;
\* KeyError at the first id that is not found.
RECURSIVE registry_select(_, _, _, _)
registry_select(d, ids, i, res) ==
    IF i > Len(ids) THEN Outcome("select", ids, None, Some(res))
    ELSE LET claw == registry_get(d, ids[i])
         IN  IF claw = None
             THEN Outcome("select", ids, Some(ids[i]), None)
             ELSE registry_select(d, ids, i + 1, Append(res, claw[1]))

\* InternalRegistry(): the registry is empty; the fuser and the
\* orchestrator are not in use.
RInit ==
    /\ NoRegistry
    /\ self_token_budget = DefaultTokenBudget
    /\ states = <<>>
    /\ token_budget = None
    /\ priorities = None
    /\ pc = "unused"
    /\ paired = <<>>
    /\ idx = 0
    /\ final_blocks = <<>>
    /\ remaining_budget = 0
    /\ result = None
    /\ claws = <<>>
    /\ NoQuery

RegAdd(claw) ==
    /\ Len(reg_log) < MaxOps
    /\ self_claws' = registry_add(self_claws, claw)
    /\ reg_log' = Append(reg_log, <<"add", claw>>)
    /\ reg_ret' = Outcome("add", <<>>, None, None)
    /\ UNCHANGED <<self_token_budget, fvars, qvars>>

RegRemove(claw_id) ==
    /\ Len(reg_log) < MaxOps
    /\ self_claws' = registry_remove(self_claws, claw_id)
    /\ reg_log' = Append(reg_log, <<"remove", claw_id>>)
    /\ reg_ret' = Outcome("remove", <<>>, None, None)
    /\ UNCHANGED <<self_token_budget, fvars, qvars>>

RegSelect(ids) ==
    /\ reg_ret' = registry_select(self_claws, ids, 1, <<>>)
    /\ UNCHANGED <<self_claws, reg_log>>
    /\ UNCHANGED <<self_token_budget, fvars, qvars>>

RNext ==
    \/ \E claw \in ClawObjects : RegAdd(claw)
    \/ \E claw_id \in RequestedIds : RegRemove(claw_id)
    \/ \E ids \in SelectArgs : RegSelect(ids)

SpecRegistry == RInit /\ [][RNext]_allvars

\* ------------------------------------------------------ registry: claims
\* The positions in the log of the calls that concern a claw id.
CallsOn(claw_id) ==
    { k \in 1..Len(reg_log) :
        \/ reg_log[k][1] = "add" /\ reg_log[k][2].claw_id = claw_id
        \/ reg_log[k][1] = "remove" /\ reg_log[k][2] = claw_id }

\* The claw most recently added under a claw id and not removed since.
Registered(claw_id) ==
    IF CallsOn(claw_id) = {} THEN None
    ELSE LET last == CHOOSE k \in CallsOn(claw_id) :
                         \A j \in CallsOn(claw_id) : j <= k
         IN  IF reg_log[last][1] = "add" THEN Some(reg_log[last][2]) ELSE None

\* C24: select returns the registered claws of the requested ids in the
\* order of the ids when all are registered; otherwise it raises KeyError
\* for the first id that is not registered and returns no list; it leaves
\* the registry as it was.
C24_Select ==
    [][ reg_ret'.op = "select" =>
          LET ids == reg_ret'.ids
              missing == { k \in 1..Len(ids) : Registered(ids[k]) = None }
          IN  /\ self_claws' = self_claws
              /\ reg_log' = reg_log
              /\ missing = {} =>
                     /\ reg_ret'.raised = None
                     /\ reg_ret'.value
                            = Some([ k \in 1..Len(ids) |-> Registered(ids[k])[1] ])
              /\ missing # {} =>
                     /\ reg_ret'.value = None
                     /\ reg_ret'.raised # None
                     /\ reg_ret'.raised[1] \in { ids[k] : k \in missing }
                     /\ reg_ret'.raised[1]
                            = ids[CHOOSE k \in missing : \A j \in missing : k <= j] ]_allvars

\* select has returned two claws in the order asked for, which is not the
\* order in which they were added.
C24_Witness ==
    /\ reg_ret.op = "select"
    /\ reg_ret.ids = <<"b", "a">>
    /\ reg_ret.value # None
    /\ Len(reg_ret.value[1]) = 2
    /\ reg_ret.value[1][1].claw_id = "b"
    /\ Len(self_claws) = 2
    /\ self_claws[1][1] = "a"

\* select has raised KeyError for an id behind a registered one.
C24_WitnessMissing ==
    /\ reg_ret.op = "select"
    /\ reg_ret.ids = <<"a", "zz">>
    /\ reg_ret.raised = Some("zz")
    /\ registry_contains(self_claws, "a")

\* The registry agrees with the calls made: get, in and len.
RegistryMatchesLog ==
    /\ \A claw_id \in RequestedIds :
           /\ registry_get(self_claws, claw_id) = Registered(claw_id)
           /\ registry_contains(self_claws, claw_id)
                  <=> registry_get(self_claws, claw_id) # None
    /\ registry_len(self_claws)
           = Cardinality({ claw_id \in RequestedIds : Registered(claw_id) # None })

\* C25: after any sequence of add and remove, get returns the claw most
\* recently added under the id and not removed since, None otherwise; in
\* agrees with get; len is the number of ids present; and a remove of an id
\* that is not present changes nothing and raises nothing.
C25_RegistryState ==
    /\ []RegistryMatchesLog
    /\ [][ \A claw_id \in RequestedIds :
             (/\ reg_log' = Append(reg_log, <<"remove", claw_id>>)
              /\ Registered(claw_id) = None) =>
                 /\ self_claws' = self_claws
                 /\ reg_ret'.raised = None ]_allvars

\* An id was added, added again with another claw, removed and added again;
\* an id that was never added was not.
C25_Witness ==
    /\ Len(reg_log) = 4
    /\ reg_log[1][1] = "add" /\ reg_log[1][2].claw_id = "a"
    /\ reg_log[2][1] = "add" /\ reg_log[2][2].claw_id = "a"
    /\ reg_log[2][2] # reg_log[1][2]
    /\ reg_log[3] = <<"remove", "a">>
    /\ reg_log[4][1] = "add" /\ reg_log[4][2].claw_id = "a"
    /\ registry_len(self_claws) = 1
    /\ registry_get(self_claws, "a") = Some(reg_log[4][2])

\* A remove of an id that is not present has been made on a registry that
\* holds a claw.
C25_WitnessRemoveAbsent ==
    /\ Len(reg_log) = 2
    /\ reg_log[1][1] = "add"
    /\ reg_log[2] = <<"remove", "zz">>
    /\ reg_ret.op = "remove"
    /\ registry_len(self_claws) = 1

\* ----------------------------------- a query, with the steps of fuse
\* gather returns the list of results; query calls fuse on it with its
\* priorities.
QueryCallFuse(q) ==
    /\ ~Running
    /\ q_pc[q] = "gather"
    /\ gather_outcome(task[q]) = "return"
    /\ states' = gathered(results[q])
    /\ token_budget' = None
    /\ priorities' = q_priorities[q]
    /\ pc' = "call"
    /\ q_pc' = [q_pc EXCEPT ![q] = "fusing"]
    /\ UNCHANGED <<self_token_budget, paired, idx, final_blocks,
                   remaining_budget, result>>
    /\ UNCHANGED <<claws, q_priorities, run_log, task, results, completion,
                   q_states, q_fused, q_prompt, synth_calls, q_result,
                   q_response, q_error>>
    /\ UNCHANGED rvars

\* fuse has returned to query; its frame is gone.
QueryFuseReturn(q) ==
    /\ q_pc[q] = "fusing"
    /\ pc = "done"
    /\ q_states' = [q_states EXCEPT ![q] = Some(states)]
    /\ q_fused' = [q_fused EXCEPT ![q] = result]
    /\ q_pc' = [q_pc EXCEPT ![q] = "fused"]
    /\ states' = <<>>
    /\ token_budget' = None
    /\ priorities' = None
    /\ pc' = "unused"
    /\ paired' = <<>>
    /\ idx' = 0
    /\ final_blocks' = <<>>
    /\ remaining_budget' = 0
    /\ result' = None
    /\ UNCHANGED <<self_token_budget, claws, q_priorities, run_log, task,
                   results, completion, q_prompt, synth_calls, q_result,
                   q_response, q_error>>
    /\ UNCHANGED rvars

\* The steps of the queries when every run of a claw completes and the
\* completion call returns, with the steps of fuse.
LNext ==
    \/ \E q \in Queries :
           \/ \E p \in QueryPriorities : QueryStart(q, p)
           \/ \E i \in 1..MaxClaws : ProducerComplete(q, i)
           \/ QueryCallFuse(q)
           \/ QueryFuseReturn(q)
           \/ QuerySynthesize(q)
           \/ \E response \in Responses : SynthReturn(q, response)
    \/ FuseFullMerge
    \/ FuseOverBudget
    \/ FuseStep
    \/ FuseReturn

\* A step of a query that has started, of a run of a claw or of the
\* completion call.
QueryProgress ==
    \E q \in Queries :
        \/ \E i \in 1..MaxClaws : ProducerComplete(q, i)
        \/ QueryCallFuse(q)
        \/ QueryFuseReturn(q)
        \/ QuerySynthesize(q)
        \/ \E response \in Responses : SynthReturn(q, response)

\* A step of fuse.  One of the four is enabled exactly when fuse has been
\* called and has not returned.
FuseProgress == FuseFullMerge \/ FuseOverBudget \/ FuseStep \/ FuseReturn

InFuse == pc \in {"call", "walk"}

\* The event loop runs a coroutine that is ready; every run of a claw that
\* was started completes; the completion call returns; fuse, once called,
\* runs on.  No behaviour takes infinitely many of these steps, so fairness
\* for a disjunction of them is fairness for each.  The weak fairness of
\* FuseProgress is written out, with InFuse for ENABLED <<FuseProgress>>_allvars.
LFairness ==
    /\ WF_allvars(QueryProgress)
    /\ ([]<>~InFuse \/ []<><<FuseProgress>>_allvars)

SpecLive == QInit /\ [][LNext]_allvars /\ LFairness

\* C30: a query that has started returns a SynthesisResult, when every run
\* of a claw completes and the completion call returns; fuse returns after
\* one iteration per state, and while it runs nothing but fuse takes a step.
C30_QueryReturns ==
    /\ \A q \in Queries : (q_pc[q] = "gather") ~> (q_result[q] # None)
    /\ \A q \in Queries : (q_pc[q] = "fusing") ~> (q_fused[q] # None)
    /\ [][ /\ pc \in {"call", "walk"} =>
                /\ UNCHANGED <<self_token_budget, qvars, rvars>>
                /\ pc' \in {"walk", "done"}
           /\ (pc = "walk" /\ pc' = "walk") => idx' = idx + 1
           /\ (pc = "walk" /\ pc' = "done") =>
                /\ idx = Len(states) + 1
                /\ Len(paired) = Len(states) ]_allvars

\* Both queries have returned over two claws; fuse went through its loop.
C30_Witness ==
    /\ q_result["q1"] # None
    /\ q_result["q2"] # None
    /\ Len(claws) = 2
    /\ q_fused["q1"][1].compression_applied
    /\ Len(q_fused["q1"][1].blocks) = 2

====
